---- MODULE Spec2Model ----
(***************************************************************************)
(* State-machine model of 3D_visualization.py, the Streamlit script that   *)
(* reads an uploaded CSV of kLa measurements, lets the user pick the X, Y  *)
(* and Z columns, interpolates the samples onto a 50 x 50 grid and shows a *)
(* Plotly surface with the samples as a scatter.                           *)
(*                                                                         *)
(* One run of the script is a sequence of steps (pc); the user acts        *)
(* between runs (upload, select a column, rerun).  The only state that     *)
(* outlives a run is the uploader's file, the selectors' values and the    *)
(* plots directory on disk.                                                *)
(***************************************************************************)
EXTENDS Integers, Sequences, FiniteSets, TLC

VARIABLES
    uploaded_file,      \* st.file_uploader's value
    userChoice,         \* per role: the selector's value (option k), 0 = not yet shown
    plots_dir_exists,   \* os.path.exists("kla_3d_plotly_plots")
    pc,                 \* position of the running script
    messages,           \* what the run has put on the page, in order
    df_kla,
    x_column_name, y_column_name, z_column_name,
    X_data, Y_data, Z_data,
    xi, yi, Xi, Yi, Zi,
    griddata_out,       \* history: what interpolate.griddata returned
    fig,
    chart_shown,        \* st.plotly_chart(fig) has put fig on the page
    prevRun,            \* history: outcome of the previous run on the same input
    defaulted           \* history: per role, the selector showed its default

vars == <<uploaded_file, userChoice, plots_dir_exists, pc, messages, df_kla,
          x_column_name, y_column_name, z_column_name, X_data, Y_data, Z_data,
          xi, yi, Xi, Yi, Zi, griddata_out, fig, chart_shown, prevRun, defaulted>>

-----------------------------------------------------------------------------
(* Bounds of the model *)

\* Largest number of data rows in an uploaded file.
MaxRows == 3

(* Program constants *)

grid_res == 50

-----------------------------------------------------------------------------
(* Values.  A number is a rational n/d (d > 0); NaN is numpy's nan; Text is *)
(* a cell pandas keeps as a Python string; Est is an estimate produced by   *)
(* the cubic interpolant at a grid vertex (its numeric value is the         *)
(* library's, the model keeps it opaque).                                   *)

Rat(n, d) == [k |-> "num", n |-> n, d |-> d]
Num(v)    == Rat(v, 1)
NaN       == [k |-> "nan", n |-> 0, d |-> 1]
Text      == [k |-> "str", n |-> 0, d |-> 1]
Empty     == [k |-> "empty", n |-> 0, d |-> 1]
Est(id)   == [k |-> "est", n |-> id, d |-> 1]

IsNum(a) == a.k = "num"
RatEq(a, b) == IsNum(a) /\ IsNum(b) /\ a.n * b.d = b.n * a.d
RatLess(a, b) == a.n * b.d < b.n * a.d
RatSub(a, b) == Rat(a.n * b.d - b.n * a.d, a.d * b.d)

Range(s) == {s[i] : i \in 1..Len(s)}
IndexOf(s, e) == CHOOSE i \in 1..Len(s) : s[i] = e /\ \A j \in 1..(i-1) : s[j] # e

\* numpy.isnan
isnan(a) == a.k = "nan"

-----------------------------------------------------------------------------
(* The files a user can upload. *)

NoFile == [kind |-> "none", header |-> <<>>, rows |-> <<>>]
\* A file pandas cannot parse (for instance an empty .csv).
BadFile == [kind |-> "bad", header |-> <<>>, rows |-> <<>>]

Headers ==
    { <<"Agitation RPM", "Gas Flow (L/min)", "kLa (s-1)">>,
      <<"kLa (s-1)", "Agitation RPM", "Gas Flow (L/min)">>,
      <<"Time", "agitation rpm", "kLa (s-1)">>,
      <<"Speed", "Gas Flow (L/min)">> }

\* The numeric content of column c in row r: column 1 rises, column 2
\* alternates, column 3 is constant.
BaseCell(c, r) ==
    CASE c = 1 -> Num(r - 1)
      [] c = 2 -> Num((r - 1) % 2)
      [] OTHER -> Num(1)

\* A defect replaces the cell of one column in the last row by an empty cell
\* or by text; column 0 means no defect.
Defects(ncols) == {[col |-> 0, cell |-> Empty]} \cup
                  {[col |-> c, cell |-> x] : c \in 1..ncols, x \in {Empty, Text}}

RowsOf(ncols, n, defect) ==
    [r \in 1..n |-> [c \in 1..ncols |->
        IF r = n /\ c = defect.col THEN defect.cell ELSE BaseCell(c, r)]]

FilesWith(h) ==
    {[kind |-> "csv", header |-> h, rows |-> RowsOf(Len(h), n, d)] :
        n \in 0..MaxRows, d \in Defects(Len(h))}

CsvFiles == UNION {FilesWith(h) : h \in Headers}

Files == {BadFile} \cup CsvFiles

-----------------------------------------------------------------------------
(* pandas.read_csv, as far as the script depends on it: the column names   *)
(* and, per column, the inferred dtype and the values.                     *)

InferDtype(cells) ==
    IF Len(cells) = 0 THEN "object"
    ELSE IF \E i \in 1..Len(cells) : cells[i] = Text THEN "object"
    ELSE IF \E i \in 1..Len(cells) : cells[i] = Empty THEN "float64"
    ELSE "int64"

\* An empty cell is read as nan; in an object column the other cells stay
\* Python strings.
ConvertCell(dtype, cell) ==
    IF cell = Empty THEN NaN
    ELSE IF dtype = "object" THEN Text
    ELSE cell

NoDf == [columns |-> <<>>, dtype |-> <<>>, data |-> <<>>]

read_csv(file) ==
    LET ncols == Len(file.header)
        col(c) == [r \in 1..Len(file.rows) |-> file.rows[r][c]]
    IN [columns |-> file.header,
        dtype   |-> [c \in 1..ncols |-> InferDtype(col(c))],
        data    |-> [c \in 1..ncols |->
                       [r \in 1..Len(file.rows) |->
                           ConvertCell(InferDtype(col(c)), col(c)[r])]]]

\* Variant: the test is pd.api.types.is_float_dtype.
is_float_dtype(dtype) == dtype = "float64"

\* pd.api.types.is_numeric_dtype
is_numeric_dtype(dtype) == dtype \in {"int64", "float64", "bool"}

\* df_kla[name]
ColumnOf(df, name) == IndexOf(df.columns, name)

-----------------------------------------------------------------------------
(* Column selection. *)

\* Variant: the fallback is the last column instead of the first.
DefaultIndex_last(cols, name) ==
    IF name \in Range(cols) THEN IndexOf(cols, name) - 1 ELSE Len(cols) - 1

\* index=cols.index(name) if name in cols else 0   (0-based, as in the code)
DefaultIndex(cols, name) ==
    IF name \in Range(cols) THEN IndexOf(cols, name) - 1 ELSE 0

\* st.selectbox: the option the user picked, else options[index].
selectbox(options, index, choice) ==
    IF choice \in 1..Len(options) THEN options[choice] ELSE options[index + 1]

-----------------------------------------------------------------------------
(* numpy and scipy, as far as the script depends on them. *)

\* ndarray.min() / np.min: nan if any element is nan.  (An empty array raises;
\* the caller tests for it.)
ArrMin(a) ==
    IF \E i \in 1..Len(a) : isnan(a[i]) THEN NaN
    ELSE a[CHOOSE i \in 1..Len(a) : \A j \in 1..Len(a) : ~RatLess(a[j], a[i])]

ArrMax(a) ==
    IF \E i \in 1..Len(a) : isnan(a[i]) THEN NaN
    ELSE a[CHOOSE i \in 1..Len(a) : \A j \in 1..Len(a) : ~RatLess(a[i], a[j])]

\* Variant: np.linspace(..., endpoint=False), the step is (stop - start) / num.
linspace_no_endpoint(start, stop, num) ==
    IF isnan(start) \/ isnan(stop) THEN [k \in 1..num |-> NaN]
    ELSE LET delta == RatSub(stop, start)
         IN [k \in 1..num |->
               Rat(start.n * delta.d * num + (k - 1) * delta.n * start.d,
                   start.d * delta.d * num)]

\* np.linspace(start, stop, num): start + k * (stop - start) / (num - 1) for
\* k = 0 .. num-1, the last element set to stop.
linspace(start, stop, num) ==
    IF isnan(start) \/ isnan(stop) THEN [k \in 1..num |-> NaN]
    ELSE LET delta == RatSub(stop, start)
             div == num - 1
         IN [k \in 1..num |->
               IF k = num THEN Rat(stop.n * div, stop.d * div)
               ELSE Rat(start.n * delta.d * div + (k - 1) * delta.n * start.d,
                        start.d * delta.d * div)]

\* np.meshgrid(xi, yi): two arrays of shape (len(yi), len(xi)).
meshgridX(x, y) == [j \in 1..Len(y) |-> [i \in 1..Len(x) |-> x[i]]]
meshgridY(x, y) == [j \in 1..Len(y) |-> [i \in 1..Len(x) |-> y[j]]]

\* ndarray.shape of a 2-D array
Shape(A) == <<Len(A), IF Len(A) = 0 THEN 0 ELSE Len(A[1])>>

\* Sign carrier of the cross product (b - a) x (p - a); denominators are positive.
Cross(ax, ay, bx, by, px, py) ==
    (bx.n * ax.d - ax.n * bx.d) * by.d * (py.n * ay.d - ay.n * py.d) * px.d
  - (by.n * ay.d - ay.n * by.d) * bx.d * (px.n * ax.d - ax.n * px.d) * py.d

Collinear(xs, ys) ==
    \A a, b, c \in 1..Len(xs) :
        Cross(xs[a], ys[a], xs[b], ys[b], xs[c], ys[c]) = 0

\* Whether (px, py) lies in the convex hull of the points: in a closed
\* triangle spanned by three of them.
InHull(xs, ys, px, py) ==
    \E a, b, c \in 1..Len(xs) :
        /\ a < b /\ b < c
        /\ Cross(xs[a], ys[a], xs[b], ys[b], xs[c], ys[c]) # 0
        /\ LET s1 == Cross(xs[a], ys[a], xs[b], ys[b], px, py)
               s2 == Cross(xs[b], ys[b], xs[c], ys[c], px, py)
               s3 == Cross(xs[c], ys[c], xs[a], ys[a], px, py)
           IN \/ (s1 >= 0 /\ s2 >= 0 /\ s3 >= 0)
              \/ (s1 =< 0 /\ s2 =< 0 /\ s3 =< 0)

\* interpolate.griddata raises instead of returning: nan among the point
\* coordinates (ValueError), or no triangulation of the points exists
\* (QhullError: fewer than 3 points, or all of them on one line).
griddata_raises(xs, ys) ==
    \/ \E i \in 1..Len(xs) : isnan(xs[i]) \/ isnan(ys[i])
    \/ Len(xs) < 3
    \/ Collinear(xs, ys)

\* interpolate.griddata((X, Y), Z, (Xi, Yi), method='cubic') when it returns:
\* an array of the shape of Xi, nan at every vertex outside the convex hull
\* of the points; inside, the sample's z at a vertex that is a sample point
\* and an estimate elsewhere.  A nan among the values spreads through the
\* gradient estimation to every vertex.
griddata(xs, ys, zs, GX, GY) ==
    LET zbad == \E i \in 1..Len(zs) : isnan(zs[i])
    IN [j \in 1..Len(GX) |-> [i \in 1..Len(GX[j]) |->
          LET px == GX[j][i]
              py == GY[j][i]
              hit == {s \in 1..Len(xs) : RatEq(px, xs[s]) /\ RatEq(py, ys[s])}
          IN IF zbad \/ ~InHull(xs, ys, px, py) THEN NaN
             ELSE IF hit # {} THEN zs[CHOOSE s \in hit : \A t \in hit : s =< t]
             ELSE Est((j - 1) * Len(GX[j]) + i)]]

\* Variant: the zero-fill line is missing.
zero_fill_skipped(Z) == Z

\* Zi[np.isnan(Zi)] = 0
zero_fill(Z) ==
    [j \in 1..Len(Z) |-> [i \in 1..Len(Z[j]) |->
        IF isnan(Z[j][i]) THEN Num(0) ELSE Z[j][i]]]

\* (np.max(a) - np.min(a)) / parts
contour_size(a, parts) ==
    IF isnan(ArrMin(a)) THEN NaN
    ELSE LET w == RatSub(ArrMax(a), ArrMin(a)) IN Rat(w.n, w.d * parts)

contours(a, parts) ==
    [start |-> ArrMin(a), end |-> ArrMax(a), size |-> contour_size(a, parts)]

\* go.Surface(x=Xi, y=Yi, z=Zi, ..., contours_z=..., contours_x=..., contours_y=...)
surface_trace(GX, GY, GZ, xs, ys, zs) ==
    [x |-> GX, y |-> GY, z |-> GZ, colorscale |-> "Viridis",
     contours_z |-> contours(zs, 20),
     contours_x |-> contours(xs, 10),
     contours_y |-> contours(ys, 10),
     name |-> "KLa Surface"]

\* go.Scatter3d(x=X_data, y=Y_data, z=Z_data, mode='markers', ...)
scatter_trace(xs, ys, zs) ==
    [x |-> xs, y |-> ys, z |-> zs, mode |-> "markers", color |-> "red",
     name |-> "Data Points"]

\* Variant: the X and Z names change places in the title.
title_text_swapped(xname, yname, zname) == xname \o " vs. " \o zname \o " and " \o yname

\* f'{z_column_name} vs. {x_column_name} and {y_column_name}'
title_text(xname, yname, zname) == zname \o " vs. " \o xname \o " and " \o yname

\* fig.update_layout(scene=dict(xaxis_title=..., ...), title_text=...)
layout(xname, yname, zname) ==
    [xaxis_title |-> xname, yaxis_title |-> yname, zaxis_title |-> zname,
     title_text |-> title_text(xname, yname, zname)]

\* go.Figure(data=[surface_trace, scatter_trace]) with the layout applied
Figure(surface, scatter, lay) ==
    [set |-> TRUE, surface |-> surface, scatter |-> scatter, layout |-> lay]

-----------------------------------------------------------------------------
(* Messages. *)

Msg(kind, text, area) == [kind |-> kind, text |-> text, area |-> area]

MsgUploaded  == Msg("success", "File uploaded successfully!", "main")
MsgReadError == Msg("error", "Error reading file: ... Please ensure it's a valid CSV.", "main")
MsgNotNumeric == Msg("error", "Selected columns must contain numeric data. Please check your data.", "main")
\* Variant: st.info instead of st.sidebar.info.
MsgCreatedDir_in_main == Msg("info", "Created directory: kla_3d_plotly_plots for plot saving if needed.", "main")
MsgCreatedDir == Msg("info", "Created directory: kla_3d_plotly_plots for plot saving if needed.", "sidebar")
MsgGenerated == Msg("success", "Interactive 3D plot generated! You can rotate, zoom, and pan with your mouse.", "main")
MsgPleaseUpload == Msg("info", "Please upload your KLa data CSV file to generate the 3D plot.", "main")
MsgGriddataRaised == Msg("exception", "interpolate.griddata raised (QhullError or ValueError)", "main")
\* An exception no handler catches: Streamlit shows it and ends the run.
MsgException(what) == Msg("exception", what, "main")

-----------------------------------------------------------------------------
NoFig == [set |-> FALSE]
NoRun == [set |-> FALSE]

ScriptLocals ==
    /\ df_kla = NoDf
    /\ x_column_name = "" /\ y_column_name = "" /\ z_column_name = ""
    /\ X_data = <<>> /\ Y_data = <<>> /\ Z_data = <<>>
    /\ xi = <<>> /\ yi = <<>> /\ Xi = <<>> /\ Yi = <<>> /\ Zi = <<>>
    /\ griddata_out = <<>>
    /\ fig = NoFig
    /\ chart_shown = FALSE
    /\ defaulted = [x |-> FALSE, y |-> FALSE, z |-> FALSE]
    /\ messages = <<>>

Init ==
    /\ uploaded_file = NoFile
    /\ userChoice = [x |-> 0, y |-> 0, z |-> 0]
    /\ plots_dir_exists = FALSE
    /\ pc = "start"
    /\ prevRun = NoRun
    /\ ScriptLocals

\* if uploaded_file is not None: ... else: st.info(...)
NoUpload ==
    /\ pc = "start"
    /\ uploaded_file = NoFile
    /\ messages' = Append(messages, MsgPleaseUpload)
    /\ pc' = "done"
    /\ UNCHANGED <<uploaded_file, userChoice, plots_dir_exists, df_kla,
                   x_column_name, y_column_name, z_column_name,
                   X_data, Y_data, Z_data, xi, yi, Xi, Yi, Zi, griddata_out,
                   fig, chart_shown, prevRun, defaulted>>

\* try: df_kla = pd.read_csv(...); st.success(...) except: st.error(...); st.stop()
ReadCsv ==
    /\ pc = "start"
    /\ uploaded_file # NoFile
    /\ IF uploaded_file.kind = "csv"
       THEN /\ df_kla' = read_csv(uploaded_file)
            /\ messages' = Append(messages, MsgUploaded)
            /\ pc' = "select"
       ELSE /\ df_kla' = df_kla
            /\ messages' = Append(messages, MsgReadError)
            /\ pc' = "stopped"
    /\ UNCHANGED <<uploaded_file, userChoice, plots_dir_exists,
                   x_column_name, y_column_name, z_column_name,
                   X_data, Y_data, Z_data, xi, yi, Xi, Yi, Zi, griddata_out,
                   fig, chart_shown, prevRun, defaulted>>

\* x_column_name = st.selectbox(...); y_column_name = ...; z_column_name = ...
\* (a selector that has been shown keeps the value it shows)
SelectColumns ==
    /\ pc = "select"
    /\ LET cols == df_kla.columns
       IN /\ x_column_name' = selectbox(cols, DefaultIndex(cols, "Agitation RPM"), userChoice.x)
          /\ y_column_name' = selectbox(cols, DefaultIndex(cols, "Gas Flow (L/min)"), userChoice.y)
          /\ z_column_name' = selectbox(cols, DefaultIndex(cols, "kLa (s-1)"), userChoice.z)
    /\ defaulted' = [x |-> userChoice.x = 0, y |-> userChoice.y = 0, z |-> userChoice.z = 0]
    /\ userChoice' = [x |-> ColumnOf(df_kla, x_column_name'),
                      y |-> ColumnOf(df_kla, y_column_name'),
                      z |-> ColumnOf(df_kla, z_column_name')]
    /\ pc' = "validate"
    /\ UNCHANGED <<uploaded_file, plots_dir_exists, messages, df_kla,
                   X_data, Y_data, Z_data, xi, yi, Xi, Yi, Zi, griddata_out,
                   fig, chart_shown, prevRun>>

\* Variant: only the X column is tested.
columns_numeric_first_only(df, xname, yname, zname) ==
    is_numeric_dtype(df.dtype[ColumnOf(df, xname)])

\* all(is_numeric_dtype(df_kla[col]) for col in [x, y, z])
columns_numeric(df, xname, yname, zname) ==
    \A name \in {xname, yname, zname} : is_numeric_dtype(df.dtype[ColumnOf(df, name)])

\* Variant: st.error without the st.stop() after it.
Validate_no_stop ==
    /\ pc = "validate"
    /\ IF columns_numeric(df_kla, x_column_name, y_column_name, z_column_name)
       THEN messages' = messages
       ELSE messages' = Append(messages, MsgNotNumeric)
    /\ pc' = "extract"
    /\ UNCHANGED <<uploaded_file, userChoice, plots_dir_exists, df_kla,
                   x_column_name, y_column_name, z_column_name,
                   X_data, Y_data, Z_data, xi, yi, Xi, Yi, Zi, griddata_out,
                   fig, chart_shown, prevRun, defaulted>>

\* if not all(...): st.error(...); st.stop()
Validate ==
    /\ pc = "validate"
    /\ IF columns_numeric(df_kla, x_column_name, y_column_name, z_column_name)
       THEN /\ pc' = "extract"
            /\ messages' = messages
       ELSE /\ pc' = "stopped"
            /\ messages' = Append(messages, MsgNotNumeric)
    /\ UNCHANGED <<uploaded_file, userChoice, plots_dir_exists, df_kla,
                   x_column_name, y_column_name, z_column_name,
                   X_data, Y_data, Z_data, xi, yi, Xi, Yi, Zi, griddata_out,
                   fig, chart_shown, prevRun, defaulted>>

\* X_data = df_kla[x_column_name].to_numpy(); likewise Y_data, Z_data
Extract ==
    /\ pc = "extract"
    /\ X_data' = df_kla.data[ColumnOf(df_kla, x_column_name)]
    /\ Y_data' = df_kla.data[ColumnOf(df_kla, y_column_name)]
    /\ Z_data' = df_kla.data[ColumnOf(df_kla, z_column_name)]
    /\ pc' = "grid"
    /\ UNCHANGED <<uploaded_file, userChoice, plots_dir_exists, messages, df_kla,
                   x_column_name, y_column_name, z_column_name,
                   xi, yi, Xi, Yi, Zi, griddata_out, fig, chart_shown, prevRun, defaulted>>

\* xi = np.linspace(X.min(), X.max(), grid_res); yi = ...; Xi, Yi = np.meshgrid(xi, yi)
\* (min of an empty array raises ValueError)
BuildGrid ==
    /\ pc = "grid"
    /\ IF Len(X_data) = 0
       THEN /\ pc' = "crashed"
            /\ messages' = Append(messages, MsgException("ValueError: zero-size array to reduction operation minimum"))
            /\ UNCHANGED <<xi, yi, Xi, Yi>>
       ELSE LET nxi == linspace(ArrMin(X_data), ArrMax(X_data), grid_res)
                nyi == linspace(ArrMin(Y_data), ArrMax(Y_data), grid_res)
            IN /\ xi' = nxi
               /\ yi' = nyi
               /\ Xi' = meshgridX(nxi, nyi)
               /\ Yi' = meshgridY(nxi, nyi)
               /\ pc' = "interpolate"
               /\ messages' = messages
    /\ UNCHANGED <<uploaded_file, userChoice, plots_dir_exists, df_kla,
                   x_column_name, y_column_name, z_column_name,
                   X_data, Y_data, Z_data, Zi, griddata_out, fig, chart_shown, prevRun, defaulted>>

\* Zi = interpolate.griddata((X_data, Y_data), Z_data, (Xi, Yi), method='cubic')
Interpolate ==
    /\ pc = "interpolate"
    /\ IF griddata_raises(X_data, Y_data)
       THEN /\ pc' = "crashed"
            /\ messages' = Append(messages, MsgGriddataRaised)
            /\ UNCHANGED <<Zi, griddata_out>>
       ELSE LET out == griddata(X_data, Y_data, Z_data, Xi, Yi)
            IN /\ Zi' = out
               /\ griddata_out' = out
               /\ pc' = "fill"
               /\ messages' = messages
    /\ UNCHANGED <<uploaded_file, userChoice, plots_dir_exists, df_kla,
                   x_column_name, y_column_name, z_column_name,
                   X_data, Y_data, Z_data, xi, yi, Xi, Yi, fig, chart_shown, prevRun, defaulted>>

\* Zi[np.isnan(Zi)] = 0
ZeroFill ==
    /\ pc = "fill"
    /\ Zi' = zero_fill(Zi)
    /\ pc' = "mkdir"
    /\ UNCHANGED <<uploaded_file, userChoice, plots_dir_exists, messages, df_kla,
                   x_column_name, y_column_name, z_column_name,
                   X_data, Y_data, Z_data, xi, yi, Xi, Yi, griddata_out,
                   fig, chart_shown, prevRun, defaulted>>

\* if not os.path.exists(plots_dir): os.makedirs(plots_dir); st.sidebar.info(...)
MakePlotsDir ==
    /\ pc = "mkdir"
    /\ IF ~plots_dir_exists
       THEN /\ plots_dir_exists' = TRUE
            /\ messages' = Append(messages, MsgCreatedDir)
       ELSE /\ plots_dir_exists' = plots_dir_exists
            /\ messages' = messages
    /\ pc' = "assemble"
    /\ UNCHANGED <<uploaded_file, userChoice, df_kla,
                   x_column_name, y_column_name, z_column_name,
                   X_data, Y_data, Z_data, xi, yi, Xi, Yi, Zi, griddata_out,
                   fig, chart_shown, prevRun, defaulted>>

\* surface_trace = go.Surface(...); scatter_trace = go.Scatter3d(...);
\* fig = go.Figure(data=[...]); fig.update_layout(...)
Assemble ==
    /\ pc = "assemble"
    /\ fig' = Figure(surface_trace(Xi, Yi, Zi, X_data, Y_data, Z_data),
                     scatter_trace(X_data, Y_data, Z_data),
                     layout(x_column_name, y_column_name, z_column_name))
    /\ pc' = "display"
    /\ UNCHANGED <<uploaded_file, userChoice, plots_dir_exists, messages, df_kla,
                   x_column_name, y_column_name, z_column_name,
                   X_data, Y_data, Z_data, xi, yi, Xi, Yi, Zi, griddata_out,
                   chart_shown, prevRun, defaulted>>

\* st.plotly_chart(fig, use_container_width=True)
Display ==
    /\ pc = "display"
    /\ chart_shown' = TRUE
    /\ pc' = "success"
    /\ UNCHANGED <<uploaded_file, userChoice, plots_dir_exists, messages, df_kla,
                   x_column_name, y_column_name, z_column_name,
                   X_data, Y_data, Z_data, xi, yi, Xi, Yi, Zi, griddata_out,
                   fig, prevRun, defaulted>>

\* st.success("Interactive 3D plot generated! ...")
Success ==
    /\ pc = "success"
    /\ messages' = Append(messages, MsgGenerated)
    /\ pc' = "done"
    /\ UNCHANGED <<uploaded_file, userChoice, plots_dir_exists, df_kla,
                   x_column_name, y_column_name, z_column_name,
                   X_data, Y_data, Z_data, xi, yi, Xi, Yi, Zi, griddata_out,
                   fig, chart_shown, prevRun, defaulted>>

-----------------------------------------------------------------------------
(* The user, between runs.  Streamlit runs the script again from the top    *)
(* after every interaction; the page and the script's variables start      *)
(* empty, the widgets' values and the disk are kept.                       *)

Finished == pc \in {"done", "stopped", "crashed"}

NewRun ==
    /\ pc' = "start"
    /\ df_kla' = NoDf
    /\ x_column_name' = "" /\ y_column_name' = "" /\ z_column_name' = ""
    /\ X_data' = <<>> /\ Y_data' = <<>> /\ Z_data' = <<>>
    /\ xi' = <<>> /\ yi' = <<>> /\ Xi' = <<>> /\ Yi' = <<>> /\ Zi' = <<>>
    /\ griddata_out' = <<>>
    /\ fig' = NoFig
    /\ chart_shown' = FALSE
    /\ defaulted' = [x |-> FALSE, y |-> FALSE, z |-> FALSE]
    /\ messages' = <<>>

\* The user puts a file into the empty uploader, or removes the file it
\* holds; the selectors of a new table start from their defaults.
Upload(f) ==
    /\ Finished
    /\ f # uploaded_file
    /\ f = NoFile \/ uploaded_file = NoFile
    /\ uploaded_file' = f
    /\ userChoice' = [x |-> 0, y |-> 0, z |-> 0]
    /\ prevRun' = NoRun
    /\ NewRun
    /\ UNCHANGED plots_dir_exists

\* The user picks option k in the selector of one role.
Choose(role, k) ==
    /\ Finished
    /\ df_kla # NoDf
    /\ k \in 1..Len(df_kla.columns)
    /\ userChoice[role] # k
    /\ userChoice' = [userChoice EXCEPT ![role] = k]
    /\ prevRun' = NoRun
    /\ NewRun
    /\ UNCHANGED <<uploaded_file, plots_dir_exists>>

\* The chart on the page.
chart == IF chart_shown THEN fig ELSE NoFig

\* What a run showed: its messages and its chart.
Outcome == [set |-> TRUE, messages |-> messages, chart |-> chart]

\* The user reruns the script on the same file and the same selections.
Rerun ==
    /\ Finished
    /\ prevRun' = Outcome
    /\ NewRun
    /\ UNCHANGED <<uploaded_file, userChoice, plots_dir_exists>>

\* The files of the rerun specification: the unreadable one and the tables
\* under the canonical header.
RerunFiles == {BadFile} \cup FilesWith(<<"Agitation RPM", "Gas Flow (L/min)", "kLa (s-1)">>)

Script ==
    \/ NoUpload
    \/ ReadCsv
    \/ SelectColumns
    \/ Validate
    \/ Extract
    \/ BuildGrid
    \/ Interpolate
    \/ ZeroFill
    \/ MakePlotsDir
    \/ Assemble
    \/ Display
    \/ Success

Next ==
    \/ Script
    \/ \E f \in Files \cup {NoFile} : Upload(f)
    \/ \E role \in {"x", "y", "z"}, k \in 1..Len(df_kla.columns) : Choose(role, k)

Spec == Init /\ [][Next]_vars

\* The same program with the user also rerunning the script on unchanged
\* input, the previous run's outcome kept for comparison.
NextRerun ==
    \/ Script
    \/ \E f \in RerunFiles \cup {NoFile} : Upload(f)
    \/ \E role \in {"x", "y", "z"}, k \in 1..Len(df_kla.columns) : Choose(role, k)
    \/ Rerun

SpecRerun == Init /\ [][NextRerun]_vars

-----------------------------------------------------------------------------
(* Properties. *)

Roles == {"x", "y", "z"}

\* The validation of this run has executed on a parsed table.
Validated == df_kla # NoDf /\ pc \notin {"start", "select", "validate"}

\* The column selected for a role: its values and its dtype.
SelCol(role) == df_kla.data[userChoice[role]]
SelDtype(role) == df_kla.dtype[userChoice[role]]
SelName(role) == df_kla.columns[userChoice[role]]

ErrorMsgs == {i \in 1..Len(messages) : messages[i].kind = "error"}

\* interpolate.griddata has been called in this run (it returned or raised).
InterpolatorCalled == griddata_out # <<>> \/ MsgGriddataRaised \in Range(messages)

Finite(a) == \A i \in 1..Len(a) : IsNum(a[i])
AllEqual(a) == \A i, j \in 1..Len(a) : a[i] = a[j]

IsMinOf(v, a) == (\E i \in 1..Len(a) : RatEq(v, a[i])) /\ (\A i \in 1..Len(a) : ~RatLess(a[i], v))
IsMaxOf(v, a) == (\E i \in 1..Len(a) : RatEq(v, a[i])) /\ (\A i \in 1..Len(a) : ~RatLess(v, a[i]))

EvenlySpaced(a) ==
    \A k \in 1..(Len(a) - 2) : RatEq(RatSub(a[k+1], a[k]), RatSub(a[k+2], a[k+1]))

IsMainMsg(m) == m.area = "main"

\* C1: a parsed file with fewer than 3 data rows is rejected with an error
\* before the grid is built: no grid, no call of the interpolator, no chart.
C1_FewRowsRejectedBeforeGrid ==
    (df_kla # NoDf /\ Len(uploaded_file.rows) < 3) =>
        /\ xi = <<>> /\ yi = <<>> /\ Xi = <<>> /\ Yi = <<>>
        /\ ~InterpolatorCalled
        /\ ~chart_shown
        /\ Finished => (pc = "stopped" /\ ErrorMsgs # {})

\* C2: if any of the three selected columns is not numeric, the run reports
\* the non-numeric-column error and stops: no grid, no interpolation, no chart.
C2_NonNumericColumnRejected ==
    (Validated /\ \E role \in Roles : SelDtype(role) = "object") =>
        /\ pc = "stopped"
        /\ messages[Len(messages)] = MsgNotNumeric
        /\ xi = <<>> /\ yi = <<>> /\ Xi = <<>> /\ Yi = <<>> /\ Zi = <<>>
        /\ ~InterpolatorCalled
        /\ fig = NoFig
        /\ ~chart_shown

\* C2 witness: only the Z column is not numeric, in a table with data rows.
C2_OnlyZNotNumeric ==
    /\ Validated
    /\ pc = "stopped"
    /\ Len(uploaded_file.rows) > 0
    /\ SelDtype("x") # "object" /\ SelDtype("y") # "object"
    /\ SelDtype("z") = "object"

\* C3: a missing entry in a selected column makes the run reject the samples
\* with an error, and every coordinate the interpolator is given is finite.
C3_MissingEntryRejected ==
    /\ (Validated /\ \E role \in Roles : ~Finite(SelCol(role)) /\ SelDtype(role) = "float64") =>
           (pc = "stopped" /\ ErrorMsgs # {} /\ ~InterpolatorCalled)
    /\ InterpolatorCalled => (Finite(X_data) /\ Finite(Y_data) /\ Finite(Z_data))

C4_State ==
    /\ ErrorMsgs # {} =>
          /\ pc = "stopped"
          /\ ErrorMsgs = {Len(messages)}
          /\ fig = NoFig /\ ~chart_shown
          /\ MsgGenerated \notin Range(messages)
    /\ pc = "stopped" => ErrorMsgs # {}
    /\ chart_shown =>
          /\ uploaded_file # NoFile
          /\ df_kla # NoDf
          /\ messages[1] = MsgUploaded
          /\ \A role \in Roles : SelDtype(role) \in {"int64", "float64"}
    /\ MsgGenerated \in Range(messages) =>
          (chart_shown /\ messages[Len(messages)] = MsgGenerated)

\* C4: an error is reported as one error message, the last thing the run
\* does: the only step from a state with an error message starts a new run.
\* No chart and no final success message follow it; the chart is shown only
\* after a successful read and a passed validation, and the final success
\* message only after the chart.
C4_ErrorHaltsRun ==
    /\ []C4_State
    /\ [][ErrorMsgs # {} => (pc' = "start" /\ messages' = <<>>)]_vars
    /\ [][(MsgGenerated \notin Range(messages) /\ MsgGenerated \in Range(messages'))
             => chart_shown]_vars

\* C4 witness: a run stopped by the validation error, after the read succeeded.
C4_StoppedAfterValidation ==
    /\ pc = "stopped"
    /\ messages = <<MsgUploaded, MsgNotNumeric>>

\* C5 (as claimed): a rerun on the same file and the same selections shows the
\* same messages and the same chart as the run before it.
C5_RerunSameOutcome ==
    (Finished /\ prevRun # NoRun) => prevRun = Outcome

\* C5 (amended): a rerun on the same file and the same selections shows the
\* same chart and the same main-page messages; the runs differ at most by
\* the sidebar note of the run that created the plots directory.
C5_RerunSameChartAndMainMessages ==
    (Finished /\ prevRun # NoRun) =>
        /\ prevRun.chart = chart
        /\ SelectSeq(prevRun.messages, IsMainMsg) = SelectSeq(messages, IsMainMsg)
        /\ prevRun.messages # messages =>
              /\ MsgCreatedDir \in Range(prevRun.messages)
              /\ MsgCreatedDir \notin Range(messages)
              /\ plots_dir_exists

\* C5 witness: a rerun that shows a chart and not the note of the first run.
C5_RerunWithoutDirNote ==
    /\ Finished /\ prevRun # NoRun
    /\ chart_shown
    /\ prevRun.messages # messages

\* C6: for at least 3 non-collinear samples the grid is 50 x 50, xi and yi are
\* 50 evenly spaced values from the minimum to the maximum of the samples,
\* and Xi, Yi and Zi have the same shape.
C6_GridCoversBounds ==
    ( /\ pc \in {"interpolate", "fill", "mkdir", "assemble", "display", "success", "done", "crashed"}
      /\ Len(X_data) >= 3
      /\ Finite(X_data) /\ Finite(Y_data)
      /\ ~Collinear(X_data, Y_data) ) =>
        /\ Len(xi) = 50 /\ Len(yi) = 50
        /\ Shape(Xi) = <<50, 50>> /\ Shape(Yi) = <<50, 50>>
        /\ IsMinOf(xi[1], X_data) /\ IsMaxOf(xi[50], X_data)
        /\ IsMinOf(yi[1], Y_data) /\ IsMaxOf(yi[50], Y_data)
        /\ EvenlySpaced(xi) /\ EvenlySpaced(yi)
        /\ RatLess(xi[1], xi[2]) /\ RatLess(yi[1], yi[2])
        /\ \A j \in 1..50 : \A i \in 1..50 : Xi[j][i] = xi[i] /\ Yi[j][i] = yi[j]
        /\ pc # "crashed"
        /\ pc # "interpolate" => (Shape(Zi) = <<50, 50>> /\ Shape(Zi) = Shape(Xi))

\* C6 witness: a finished run on 3 or more non-collinear samples.
C6_GridOfTriangle ==
    /\ pc = "done" /\ chart_shown
    /\ Len(X_data) >= 3
    /\ ~Collinear(X_data, Y_data)

\* C7: in the surface of the figure every vertex the interpolation left
\* without an estimate holds exactly 0, no vertex is nan, and every vertex
\* with an estimate holds that estimate.
C7_ZeroFilledSurface ==
    /\ chart_shown => fig # NoFig
    /\ fig # NoFig =>
          /\ Shape(fig.surface.z) = Shape(griddata_out)
          /\ \A j \in 1..Len(griddata_out) : \A i \in 1..Len(griddata_out[j]) :
                LET r == griddata_out[j][i]
                    v == fig.surface.z[j][i]
                IN /\ ~isnan(v)
                   /\ isnan(r) => v = Num(0)
                   /\ ~isnan(r) => v = r

\* C7 witness: a displayed surface with a vertex outside the hull, a vertex
\* with an estimate, and a vertex whose estimate is itself 0.
C7_SurfaceWithFilledAndKept ==
    /\ chart_shown
    /\ \E j, i \in 1..grid_res : isnan(griddata_out[j][i])
    /\ \E j, i \in 1..grid_res : griddata_out[j][i].k = "est"
    /\ \E j, i \in 1..grid_res : griddata_out[j][i] = Num(0)

CanonicalOrFirst(cols, name) ==
    IF \E i \in 1..Len(cols) : cols[i] = name THEN name ELSE cols[1]

\* C8: each selector left at its default shows the canonical name of its role
\* if the header has it and the first column otherwise; the selected names
\* are columns of the table.
C8_DefaultColumns ==
    (df_kla # NoDf /\ pc \notin {"start", "select"}) =>
        /\ defaulted.x => x_column_name = CanonicalOrFirst(df_kla.columns, "Agitation RPM")
        /\ defaulted.y => y_column_name = CanonicalOrFirst(df_kla.columns, "Gas Flow (L/min)")
        /\ defaulted.z => z_column_name = CanonicalOrFirst(df_kla.columns, "kLa (s-1)")
        /\ {x_column_name, y_column_name, z_column_name} \subseteq Range(df_kla.columns)

\* C8 witness: defaults on a header with only the Y name canonical, in the
\* second place: X and Z fall back to the first column.
C8_MixedDefaults ==
    /\ pc = "validate"
    /\ defaulted.x /\ defaulted.y /\ defaulted.z
    /\ df_kla.columns = <<"Speed", "Gas Flow (L/min)">>
    /\ x_column_name = "Speed" /\ y_column_name = "Gas Flow (L/min)" /\ z_column_name = "Speed"

NumericTable == \A role \in Roles : SelDtype(role) = "int64"

DegenerateSelection ==
    \/ AllEqual(SelCol("x"))
    \/ AllEqual(SelCol("y"))
    \/ Cardinality({userChoice.x, userChoice.y, userChoice.z}) < 3

====
